---------------------------- MODULE Spec2Model ----------------------------
(***************************************************************************)
(* A model of snip-rs: the tokenizer of src/main.rs (split_words,          *)
(* strip_punctuation), the snip reader (get_first_snip, list_snips) and    *)
(* the attachment store and resolver of src/snip/attachment.rs             *)
(* (add_attachment, get_attachment_from_uuid, get_attachment_all,          *)
(* search_attachment_uuid, Attachment::remove).                            *)
(*                                                                         *)
(* Text is a sequence of one-character strings.  The database is the two   *)
(* tables the code queries: snip_attachment (rows) and snip (snips).       *)
(***************************************************************************)
EXTENDS Integers, Sequences, FiniteSets, TLC

VARIABLES
    rows,      \* table snip_attachment: a set of rows, each with its rowid
    snips,     \* table snip: a sequence of rows in scan order
    pc,        \* position inside add_attachment: "idle" or "inserted"
    cur,       \* the add_attachment call in flight (its locals)
    issued,    \* the identifiers Uuid::new_v4 has returned so far
    stored,    \* history: the uuid string and bytes of every add_attachment that
               \* returned Ok and whose attachment no remove has deleted since
    removed,   \* history: uuid strings for which remove returned Ok
    arg,       \* the argument of the call of a pure function (text, partial)
    result     \* what the last call returned to its caller

vars == <<rows, snips, pc, cur, issued, stored, removed, arg, result>>

----------------------------------------------------------------------------
(* Bounds of the model *)

MaxText == 5       \* length of the texts given to split_words
MaxPartial == 3    \* length of the partial given to search_attachment_uuid
MaxRows == 3       \* rows of the collection search_attachment_uuid is tried on
MaxAdds == 2       \* identifiers generated by add_attachment
MaxLen == 1        \* bytes in an attached file
MaxSnips == 2      \* rows in table snip

NoResult == [op |-> "none"]
NoCall == [uuid |-> <<>>]

RECURSIVE SeqsUpTo(_, _)
SeqsUpTo(S, n) ==
    IF n = 0 THEN {<<>>}
    ELSE LET shorter == SeqsUpTo(S, n - 1)
         IN  shorter \cup {Append(s, c) : s \in shorter, c \in S}

----------------------------------------------------------------------------
(* The tokenizer: src/main.rs *)

\* White_Space characters, as str::trim_start, str::trim_end and the regex \s see them
Whitespace == {" ", "\n", "\t"}

\* chars_strip of strip_punctuation
chars_strip == {".", ",", "!", "?", "\"", "[", "]", "(", ")"}

RECURSIVE trim_start(_)
trim_start(s) ==
    IF s # <<>> /\ Head(s) \in Whitespace THEN trim_start(Tail(s)) ELSE s

RECURSIVE trim_end(_)
trim_end(s) ==
    IF s # <<>> /\ s[Len(s)] \in Whitespace
    THEN trim_end(SubSeq(s, 1, Len(s) - 1))
    ELSE s

\* Regex::split with the pattern \s+ : the pieces between the (greedy) matches,
\* the piece before a leading match and after a trailing match included.
RECURSIVE RegexSplit(_, _)
RegexSplit(s, piece) ==
    IF s = <<>> THEN <<piece>>
    ELSE IF Head(s) \in Whitespace
         THEN <<piece>> \o RegexSplit(trim_start(s), <<>>)
         ELSE RegexSplit(Tail(s), Append(piece, Head(s)))

\* a bug: the trailing character is never stripped
strip_suffix_never(s) == s

\* a bug: every leading and trailing punctuation character is stripped (a full trim)
RECURSIVE strip_punctuation_all(_)
strip_punctuation_all(s) ==
    IF s # <<>> /\ Head(s) \in {".", ",", "!", "?", "\"", "[", "]", "(", ")"}
    THEN strip_punctuation_all(Tail(s))
    ELSE IF s # <<>> /\ s[Len(s)] \in {".", ",", "!", "?", "\"", "[", "]", "(", ")"}
         THEN strip_punctuation_all(SubSeq(s, 1, Len(s) - 1))
         ELSE s

strip_prefix(s) ==
    IF s # <<>> /\ Head(s) \in chars_strip THEN Tail(s) ELSE s

strip_suffix(s) ==
    IF s # <<>> /\ s[Len(s)] \in chars_strip THEN SubSeq(s, 1, Len(s) - 1) ELSE s

strip_punctuation(s) == strip_suffix(strip_prefix(s))

split_input(s) == trim_end(trim_start(s))

split_words(s) ==
    LET words == RegexSplit(split_input(s), <<>>)
    IN  [i \in 1..Len(words) |-> strip_punctuation(words[i])]

\* The text of the spec's scenario: "Lorem ipsum (dolor) sit amet,\nsecond line?"
LoremText ==
    <<"L", "o", "r", "e", "m", " ", "i", "p", "s", "u", "m", " ",
      "(", "d", "o", "l", "o", "r", ")", " ", "s", "i", "t", " ",
      "a", "m", "e", "t", ",", "\n",
      "s", "e", "c", "o", "n", "d", " ", "l", "i", "n", "e", "?">>

TextChars == {" ", "\n", "x", "(", ")"}

Texts == SeqsUpTo(TextChars, MaxText) \cup {LoremText}

\* the "split" subcommand: split_words on the given string
SplitCall ==
    /\ result = NoResult
    /\ result' = [op |-> "split", words |-> split_words(arg)]
    /\ UNCHANGED <<rows, snips, pc, cur, issued, stored, removed, arg>>

\* the caller drops the result and is ready for the next string
SplitReturn ==
    /\ result # NoResult
    /\ result' = NoResult
    /\ UNCHANGED <<rows, snips, pc, cur, issued, stored, removed, arg>>

InitSplit ==
    /\ rows = {}
    /\ snips = <<>>
    /\ pc = "idle"
    /\ cur = NoCall
    /\ issued = {}
    /\ stored = {}
    /\ removed = {}
    /\ arg \in Texts
    /\ result = NoResult

NextSplit == SplitCall \/ SplitReturn

SpecSplit == InitSplit /\ [][NextSplit]_vars

----------------------------------------------------------------------------
(* Identifiers: the uuid crate, as src/snip/attachment.rs uses it.  A Uuid  *)
(* is a tuple of hex digits; its canonical string has the digits in        *)
(* hyphen-separated groups (here two groups of one digit, for 8-4-4-4-12). *)

HexDigits == {"a", "b"}

UuidValues == {<<x, y>> : x \in HexDigits, y \in HexDigits}

\* Uuid::to_string: lower-case hex digits in hyphenated groups
UuidToString(u) == <<u[1], "-", u[2]>>

\* ASCII lower-casing of the letters the model uses
ToLower(c) == CASE c = "A" -> "a" [] c = "B" -> "b" [] OTHER -> c

\* Uuid::try_parse / Uuid::parse_str: the hyphenated form, digits in either case
UuidParse(s) ==
    IF /\ Len(s) = 3
       /\ s[2] = "-"
       /\ ToLower(s[1]) \in HexDigits
       /\ ToLower(s[3]) \in HexDigits
    THEN [ok |-> TRUE, uuid |-> <<ToLower(s[1]), ToLower(s[3])>>]
    ELSE [ok |-> FALSE]

----------------------------------------------------------------------------
(* The resolver: search_attachment_uuid *)

\* the rows of a table in scan order (by rowid)
RECURSIVE ScanOrder(_)
ScanOrder(t) ==
    IF t = {} THEN <<>>
    ELSE LET first == CHOOSE r \in t : \A q \in t : r.rowid <= q.rowid
         IN  <<first>> \o ScanOrder(t \ {first})

\* SQLite's LIKE: % matches any run of characters, _ any one character,
\* every other character itself, ASCII letters without regard to case.
RECURSIVE Like(_, _)
Like(pat, str) ==
    IF pat = <<>> THEN str = <<>>
    ELSE IF Head(pat) = "%"
         THEN Like(Tail(pat), str) \/ (str # <<>> /\ Like(pat, Tail(str)))
         ELSE IF str = <<>> THEN FALSE
              ELSE IF Head(pat) = "_"
                   THEN Like(Tail(pat), Tail(str))
                   ELSE /\ ToLower(Head(pat)) = ToLower(Head(str))
                        /\ Like(Tail(pat), Tail(str))

\* format!("{}{}{}", "%", id_partial, "%")
id_partial_fuzzy(id_partial) == <<"%">> \o id_partial \o <<"%">>

\* WHERE uuid LIKE :id
RowMatches(uuid, id_partial) == Like(id_partial_fuzzy(id_partial), uuid)

\* a bug: LIMIT 1, so a second match is never seen
LimitRows_One(matched) == SubSeq(matched, 1, IF Len(matched) < 1 THEN Len(matched) ELSE 1)

\* LIMIT 2
LimitRows(matched) == SubSeq(matched, 1, IF Len(matched) < 2 THEN Len(matched) ELSE 2)

search_attachment_uuid(table, id_partial) ==
    LET matched == SelectSeq(ScanOrder(table), LAMBDA r : RowMatches(r.uuid, id_partial))
        fetched == LimitRows(matched)
        id_str == IF Len(fetched) >= 1 THEN fetched[1].uuid ELSE <<>>
    IN  IF Len(fetched) > 1
        THEN [op |-> "search", status |-> "UuidMultipleMatches"]
        ELSE IF id_str # <<>>
             THEN IF UuidParse(id_str).ok
                  THEN [op |-> "search", status |-> "Ok", uuid |-> UuidParse(id_str).uuid]
                  ELSE [op |-> "search", status |-> "ParseError"]
             ELSE [op |-> "search", status |-> "UuidNotFound"]

\* a row of snip_attachment as add_attachment writes it
AttachmentRow(rowid, uuid, data, size) ==
    [rowid |-> rowid, uuid |-> uuid, snip_uuid |-> <<"a", "-", "a">>,
     timestamp |-> "rfc3339", name |-> "udhr.pdf", data |-> data, size |-> size]

PartialChars == {"a", "b", "-", "A", "_", "%"}

Partials == SeqsUpTo(PartialChars, MaxPartial)

\* the collections of distinct identifiers, in the order they were inserted
Collections ==
    {c \in SeqsUpTo(UuidValues, MaxRows) : \A i, j \in 1..Len(c) : i # j => c[i] # c[j]}

SearchCall ==
    /\ result = NoResult
    /\ result' = search_attachment_uuid(rows, arg)
    /\ UNCHANGED <<rows, snips, pc, cur, issued, stored, removed, arg>>

SearchReturn ==
    /\ result # NoResult
    /\ result' = NoResult
    /\ UNCHANGED <<rows, snips, pc, cur, issued, stored, removed, arg>>

InitSearch ==
    /\ \E c \in Collections :
           rows = {AttachmentRow(i, UuidToString(c[i]), <<>>, 0) : i \in 1..Len(c)}
    /\ snips = <<>>
    /\ pc = "idle"
    /\ cur = NoCall
    /\ issued = {}
    /\ stored = {}
    /\ removed = {}
    /\ arg \in Partials
    /\ result = NoResult

NextSearch == SearchCall \/ SearchReturn

SpecSearch == InitSearch /\ [][NextSearch]_vars

----------------------------------------------------------------------------
(* Claims about the resolver, checked under SpecSearch *)

\* p occurs in s as a literal contiguous substring
IsSubstring(p, s) ==
    \E i \in 0..Len(s) : i + Len(p) <= Len(s) /\ SubSeq(s, i + 1, i + Len(p)) = p

\* C1: search_attachment_uuid has three outcomes, decided by the number of
\* stored identifiers the query matches among all rows: none gives
\* UuidNotFound, exactly one gives that identifier, two or more give
\* UuidMultipleMatches; fetching at most two rows never changes the outcome.
C1_ThreeOutcomes ==
    result.op = "search" =>
        LET matching == {r \in rows : RowMatches(r.uuid, arg)}
            n == Cardinality(matching)
        IN  /\ n = 0 => result.status = "UuidNotFound"
            /\ n = 1 => /\ result.status = "Ok"
                        /\ \A r \in matching : UuidToString(result.uuid) = r.uuid
            /\ n >= 2 => result.status = "UuidMultipleMatches"

\* C1's case: three rows are stored, more than two match, and the answer is
\* UuidMultipleMatches
C1_Witness ==
    /\ result.op = "search"
    /\ Cardinality({r \in rows : RowMatches(r.uuid, arg)}) = 3
    /\ result.status = "UuidMultipleMatches"

\* C2 as stated: a stored identifier matches a partial exactly when the
\* partial is a literal contiguous substring of its canonical form, no
\* character of the partial being special: with one identifier stored,
\* search_attachment_uuid returns it if and only if it contains the partial.
C2_AsStated ==
    (result.op = "search" /\ Cardinality(rows) = 1) =>
        \A r \in rows : (result.status = "Ok") <=> IsSubstring(arg, r.uuid)

----------------------------------------------------------------------------
(* The attachment store: add_attachment, get_attachment_from_uuid,         *)
(* get_attachment_all, Attachment::remove, against table snip_attachment.  *)
(* The code runs on one thread, so a call runs from start to return with   *)
(* no other call in between; add_attachment is two steps because the row   *)
(* it inserts is in the table before the payload is written.               *)

Bytes == {0, 7}

Files == SeqsUpTo(Bytes, MaxLen)

DecimalDigits == <<"0", "1", "2", "3", "4", "5", "6", "7", "8", "9">>

\* usize::to_string
RECURSIVE ToDecimal(_)
ToDecimal(n) ==
    IF n < 10 THEN <<DecimalDigits[n + 1]>>
    ELSE ToDecimal(n \div 10) \o <<DecimalDigits[(n % 10) + 1]>>

DigitValue(c) == CHOOSE d \in 0..9 : DecimalDigits[d + 1] = c

\* SQLite's conversion of a bound decimal text to an integer (ZEROBLOB's
\* argument, and the size column)
RECURSIVE FromDecimal(_)
FromDecimal(s) ==
    IF s = <<>> THEN 0
    ELSE 10 * FromDecimal(SubSeq(s, 1, Len(s) - 1)) + DigitValue(s[Len(s)])

\* a bug: the placeholder is inserted empty instead of sized
ZeroBlob_Empty(n) == <<>>

\* ZEROBLOB(:size)
ZeroBlob(n) == [i \in 1..n |-> 0]

\* a bug: the payload is written one byte short
WriteAt_Short(blob, buf, offset) ==
    IF offset + Len(buf) > Len(blob)
    THEN [ok |-> FALSE]
    ELSE [ok |-> TRUE,
          blob |-> [i \in 1..Len(blob) |->
                       IF i > offset /\ i < offset + Len(buf)
                       THEN buf[i - offset] ELSE blob[i]]]

\* Blob::write_at: the blob keeps its size; a write past its end fails
WriteAt(blob, buf, offset) ==
    IF offset + Len(buf) > Len(blob)
    THEN [ok |-> FALSE]
    ELSE [ok |-> TRUE,
          blob |-> [i \in 1..Len(blob) |->
                       IF i > offset /\ i <= offset + Len(buf)
                       THEN buf[i - offset] ELSE blob[i]]]

\* the rowid SQLite gives the next inserted row, which last_insert_rowid returns
last_insert_rowid(table) ==
    IF table = {} THEN 1
    ELSE (CHOOSE m \in {r.rowid : r \in table} : \A r \in table : r.rowid <= m) + 1

\* DateTime::parse_from_rfc3339 of a stored timestamp
TimestampParses(ts) == ts = "rfc3339"

\* blob_open on the row with this rowid, then read_to_end
attachment_data_from_db(table, row_id) ==
    (CHOOSE r \in table : r.rowid = row_id).data

attachment_from_db(row, data) ==
    IF /\ UuidParse(row.uuid).ok
       /\ UuidParse(row.snip_uuid).ok
       /\ TimestampParses(row.timestamp)
    THEN [status |-> "Ok", uuid |-> UuidParse(row.uuid).uuid, name |-> row.name,
          size |-> row.size, data |-> data]
    ELSE [status |-> "ParseError"]

get_attachment_from_uuid(table, id) ==
    LET found == SelectSeq(ScanOrder(table), LAMBDA r : r.uuid = UuidToString(id))
    IN  IF Len(found) >= 1
        THEN LET a == attachment_from_db(
                          found[1], attachment_data_from_db(table, found[1].rowid))
             IN  IF a.status = "Ok"
                 THEN [op |-> "get", id |-> id, status |-> "Ok", uuid |-> a.uuid,
                       name |-> a.name, size |-> a.size, data |-> a.data]
                 ELSE [op |-> "get", id |-> id, status |-> a.status]
        ELSE [op |-> "get", id |-> id, status |-> "UuidNotFound"]

get_attachment_all(table) ==
    LET scanned == ScanOrder(table)
    IN  IF \A i \in 1..Len(scanned) : UuidParse(scanned[i].uuid).ok
        THEN [op |-> "get_all", status |-> "Ok",
              ids |-> [i \in 1..Len(scanned) |-> UuidParse(scanned[i].uuid).uuid]]
        ELSE [op |-> "get_all", status |-> "ParseError"]

\* a bug: the DELETE statement removes nothing
DeleteRows_None(table, uuid) == table

\* DELETE FROM snip_attachment WHERE uuid = :uuid
DeleteRows(table, uuid) == {r \in table : r.uuid # uuid}

\* a bug: zero affected rows pass as success
RemoveStatus_ZeroOk(rows_affected) ==
    IF rows_affected > 1 THEN "General" ELSE "Ok"

\* if rows_affected != 1 { return Err(SnipError::General(..)) }
RemoveStatus(rows_affected) ==
    IF rows_affected # 1 THEN "General" ELSE "Ok"

\* add_attachment up to and including the INSERT of the placeholder row.
\* fault: what the environment makes fail (the path has no base name, the
\* file cannot be read, the statement fails).  A successful INSERT affects
\* one row, so the assert_eq!(result, 1) that follows it passes.
AddInsert(file, fault) ==
    /\ pc = "idle"
    /\ Cardinality(issued) < MaxAdds
    /\ \E u \in UuidValues \ issued :
        LET uuid == UuidToString(u)
            size == ToDecimal(Len(file))
            row_id == last_insert_rowid(rows)
        IN  /\ issued' = issued \cup {u}
            /\ IF fault = "none"
               THEN /\ rows' = rows \cup
                        {AttachmentRow(row_id, uuid, ZeroBlob(FromDecimal(size)),
                                       FromDecimal(size))}
                    /\ pc' = "inserted"
                    /\ cur' = [uuid |-> uuid, data |-> file, row_id |-> row_id,
                               before |-> rows]
                    /\ result' = [op |-> "add", status |-> "Running"]
               ELSE /\ result' = [op |-> "add", status |-> "Err", error |-> fault]
                    /\ UNCHANGED <<rows, pc, cur>>
    /\ UNCHANGED <<snips, stored, removed, arg>>

\* add_attachment from blob_open to its return.
AddWriteBlob(fault) ==
    /\ pc = "inserted"
    /\ LET row == CHOOSE r \in rows : r.rowid = cur.row_id
           written == WriteAt(row.data, cur.data, 0)
       IN  IF fault = "none" /\ written.ok
           THEN /\ rows' = (rows \ {row}) \cup {[row EXCEPT !.data = written.blob]}
                /\ stored' = stored \cup {[uuid |-> cur.uuid, data |-> cur.data]}
                /\ result' = [op |-> "add", status |-> "Ok"]
           ELSE /\ result' = [op |-> "add", status |-> "Err",
                              error |-> IF fault = "none" THEN "write_at" ELSE fault]
                /\ UNCHANGED <<rows, stored>>
    /\ pc' = "idle"
    /\ cur' = NoCall
    /\ UNCHANGED <<snips, issued, removed, arg>>

Get(id) ==
    /\ pc = "idle"
    /\ result' = get_attachment_from_uuid(rows, id)
    /\ UNCHANGED <<rows, snips, pc, cur, issued, stored, removed, arg>>

GetAll ==
    /\ pc = "idle"
    /\ result' = get_attachment_all(rows)
    /\ UNCHANGED <<rows, snips, pc, cur, issued, stored, removed, arg>>

Search(id_partial) ==
    /\ pc = "idle"
    /\ result' = search_attachment_uuid(rows, id_partial)
    /\ UNCHANGED <<rows, snips, pc, cur, issued, stored, removed, arg>>

\* Attachment::remove on an Attachment value whose uuid is id
Remove(id) ==
    /\ pc = "idle"
    /\ LET uuid == UuidToString(id)
           rows_affected == Cardinality({r \in rows : r.uuid = uuid})
           status == RemoveStatus(rows_affected)
       IN  /\ rows' = DeleteRows(rows, uuid)
           /\ result' = [op |-> "remove", id |-> id, status |-> status]
           /\ removed' = IF status = "Ok" THEN removed \cup {uuid} ELSE removed
           /\ stored' = IF rows_affected > 0
                        THEN {s \in stored : s.uuid # uuid}
                        ELSE stored
    /\ UNCHANGED <<snips, pc, cur, issued, arg>>

\* the partials tried against the store: the empty one and single characters
StorePartials == SeqsUpTo(PartialChars, 1)

Init ==
    /\ rows = {}
    /\ snips = <<>>
    /\ pc = "idle"
    /\ cur = NoCall
    /\ issued = {}
    /\ stored = {}
    /\ removed = {}
    /\ arg = <<>>
    /\ result = NoResult

Next ==
    \/ \E file \in Files, fault \in {"none", "basename", "read", "insert"} :
           AddInsert(file, fault)
    \/ \E fault \in {"none", "blob_open", "write_at"} : AddWriteBlob(fault)
    \/ \E id \in UuidValues : Get(id)
    \/ GetAll
    \/ \E id_partial \in StorePartials : Search(id_partial)
    \/ \E id \in UuidValues : Remove(id)

Spec == Init /\ [][Next]_vars

----------------------------------------------------------------------------
(* Claims about the attachment store, checked under Spec *)

\* C3: byte fidelity: a get_attachment_from_uuid on the identifier of a
\* successful add_attachment of bytes b (the empty sequence included), not
\* removed since, returns data equal to b and size equal to the length of
\* b, whatever else was added or removed meanwhile.
C3_ByteFidelity ==
    result.op = "get" =>
        \A s \in stored :
            s.uuid = UuidToString(result.id) =>
                /\ result.status = "Ok"
                /\ result.data = s.data
                /\ result.size = Len(s.data)

\* C3's case: a stored attachment with a non-zero byte is read back after
\* another attachment was removed
C3_Witness ==
    /\ result.op = "get"
    /\ result.status = "Ok"
    /\ \E i \in 1..Len(result.data) : result.data[i] # 0
    /\ \E s \in stored : s.uuid = UuidToString(result.id)
    /\ removed # {}

\* C4: deletion finality: once remove has returned Ok for an identifier,
\* every later get_attachment_from_uuid on it fails with UuidNotFound.
C4_DeletionFinality ==
    (result.op = "get" /\ UuidToString(result.id) \in removed) =>
        result.status = "UuidNotFound"

\* C4's case: an attachment that was removed is asked for while another
\* attachment is still in the table
C4_Witness ==
    /\ result.op = "get"
    /\ UuidToString(result.id) \in removed
    /\ result.status = "UuidNotFound"
    /\ rows # {}

\* C5: remove returns Ok if and only if its DELETE took exactly one row out
\* of the table; when it took none (or several) it returns an error.
C5_RemoveExactlyOne ==
    [][result'.op = "remove" =>
          ((result'.status = "Ok") <=> (Cardinality(rows \ rows') = 1))]_vars

\* C5's case: a second remove of the same attachment has returned an error
C5_Witness ==
    /\ result.op = "remove"
    /\ result.status = "General"
    /\ UuidToString(result.id) \in removed

\* C6: every stored row has size equal to the length of its data, in every
\* state, the one between the INSERT of the placeholder and the write of
\* the payload included.
C6_SizeIsLength ==
    \A r \in rows : r.size = Len(r.data)

\* C6's case: add_attachment has inserted the zero-filled placeholder of a
\* non-empty file and has not written the payload yet
C6_Witness ==
    /\ pc = "inserted"
    /\ \E r \in rows :
           /\ r.rowid = cur.row_id
           /\ r.data = ZeroBlob(Len(cur.data))
           /\ r.data # cur.data

\* C10 as stated: add_attachment is all-or-nothing: whenever it returns an
\* error the table is as it was when the call started.
C10_AsStated ==
    [][(result'.op = "add" /\ result'.status = "Err") =>
          rows' = (IF pc = "inserted" THEN cur.before ELSE rows)]_vars

----------------------------------------------------------------------------
(* The snip reader: get_first_snip and list_snips of src/main.rs.  The     *)
(* program only reads table snip, so its rows are whatever the database    *)
(* file holds: a column is a text or NULL, a timestamp text is RFC 3339 or *)
(* not, a uuid text is a uuid or not.                                      *)

SnipRows ==
    [uuid : {"uuid", "garbled", "null"}, name : {"text", "null"},
     timestamp : {"rfc3339", "garbled", "null"}, data : {"text", "null"}]

SnipTables == SeqsUpTo(SnipRows, MaxSnips)

\* The closure given to query_map, and what the caller's unwrap makes of
\* it: row.get(2)? fails on a NULL timestamp, a timestamp text that does
\* not parse reaches panic!, and row.get(0)?, row.get(1)?, row.get(3)? fail
\* on a NULL column; every Err of the closure is then unwrapped.
SnipFromRow(row) ==
    IF row.timestamp = "null" THEN "unwrap"
    ELSE IF ~TimestampParses(row.timestamp) THEN "timestamp"
    ELSE IF row.uuid = "null" \/ row.name = "null" \/ row.data = "null"
         THEN "unwrap"
         ELSE "Ok"

get_first_snip(table) ==
    IF Len(table) >= 1
    THEN IF SnipFromRow(table[1]) = "Ok"
         THEN [op |-> "get_first", status |-> "Ok", row |-> 1]
         ELSE [op |-> "get_first", status |-> "Panic", row |-> 1,
               site |-> SnipFromRow(table[1])]
    ELSE [op |-> "get_first", status |-> "NotFound"]

\* list_snips from row i on: each row is unwrapped, then its uuid is parsed
RECURSIVE list_snips(_, _)
list_snips(table, i) ==
    IF i > Len(table) THEN [op |-> "list", status |-> "Ok", printed |-> Len(table)]
    ELSE IF SnipFromRow(table[i]) # "Ok"
         THEN [op |-> "list", status |-> "Panic", row |-> i,
               site |-> SnipFromRow(table[i])]
         ELSE IF table[i].uuid # "uuid"
              THEN [op |-> "list", status |-> "ParseError", row |-> i]
              ELSE list_snips(table, i + 1)

GetFirstSnip ==
    /\ result' = get_first_snip(snips)
    /\ UNCHANGED <<rows, snips, pc, cur, issued, stored, removed, arg>>

ListSnips ==
    /\ result' = list_snips(snips, 1)
    /\ UNCHANGED <<rows, snips, pc, cur, issued, stored, removed, arg>>

InitSnip ==
    /\ rows = {}
    /\ snips \in SnipTables
    /\ pc = "idle"
    /\ cur = NoCall
    /\ issued = {}
    /\ stored = {}
    /\ removed = {}
    /\ arg = <<>>
    /\ result = NoResult

NextSnip == GetFirstSnip \/ ListSnips

SpecSnip == InitSnip /\ [][NextSnip]_vars

----------------------------------------------------------------------------
(* Claims about failures, checked under SpecSnip *)

\* C7 as stated: every failure inside a core operation comes back to the
\* caller as an error value, and the process is terminated abnormally in
\* one situation only: the stored timestamp of the row being read is not a
\* timestamp text that parses.
C7_AsStated ==
    (result.op = "get_first" /\ result.status = "Panic") =>
        snips[result.row].timestamp # "rfc3339"

----------------------------------------------------------------------------
(* Claims about the tokenizer, checked under SpecSplit *)

\* the punctuation set the specification names
PunctuationSet == {".", ",", "!", "?", "\"", "[", "]", "(", ")"}

IsSeparator(c) == c \in {" ", "\n", "\t"}

\* the positions where a maximal run of non-whitespace characters starts
RunStarts(t) ==
    {i \in 1..Len(t) : ~IsSeparator(t[i]) /\ (i = 1 \/ IsSeparator(t[i - 1]))}

RunEnd(t, i) ==
    CHOOSE j \in i..Len(t) :
        /\ \A k \in i..j : ~IsSeparator(t[k])
        /\ (j = Len(t) \/ IsSeparator(t[j + 1]))

\* the maximal runs of non-whitespace characters of t, in their order
Runs(t) ==
    LET starts == RunStarts(t)
        nth(k) == CHOOSE i \in starts : Cardinality({s \in starts : s <= i}) = k
    IN  [k \in 1..Cardinality(starts) |-> SubSeq(t, nth(k), RunEnd(t, nth(k)))]

\* o is r with at most one leading and at most one trailing character of the
\* punctuation set removed, and nothing else
StrippedOnce(r, o) ==
    \E i \in {0, 1}, j \in {0, 1} :
        /\ i + j <= Len(r)
        /\ o = SubSeq(r, 1 + i, Len(r) - j)
        /\ (i = 1 => r[1] \in PunctuationSet)
        /\ (j = 1 => r[Len(r)] \in PunctuationSet)

TokensAreStrippedRuns ==
    /\ Len(result.words) = Len(Runs(arg))
    /\ \A k \in 1..Len(result.words) : StrippedOnce(Runs(arg)[k], result.words[k])

\* C8 as stated: for every input text, split_words returns the maximal runs of
\* non-whitespace characters of the text, in order, each with at most one
\* leading and at most one trailing punctuation character removed.
C8_AsStated ==
    result.op = "split" => TokensAreStrippedRuns

\* C8 as amended: the same for every text that holds a non-whitespace
\* character; for an empty or all-whitespace text split_words returns one
\* empty token, not the empty sequence of runs.
C8_SplitWords ==
    result.op = "split" =>
        IF RunStarts(arg) # {}
        THEN TokensAreStrippedRuns
        ELSE result.words = << <<>> >>

\* C8's case: "((x))" is split into the single token "(x)"
C8_Witness ==
    /\ result.op = "split"
    /\ arg = <<"(", "(", "x", ")", ")">>
    /\ result.words = << <<"(", "x", ")">> >>

\* C9 as stated: the scenario text yields "amet," and "line?" with their
\* trailing punctuation kept.
C9_AsStated ==
    (result.op = "split" /\ arg = LoremText) =>
        result.words =
            << <<"L", "o", "r", "e", "m">>, <<"i", "p", "s", "u", "m">>,
               <<"d", "o", "l", "o", "r">>, <<"s", "i", "t">>,
               <<"a", "m", "e", "t", ",">>,
               <<"s", "e", "c", "o", "n", "d">>, <<"l", "i", "n", "e", "?">> >>

\* C9 as amended: the scenario text yields Lorem, ipsum, dolor, sit, amet,
\* second, line: the trailing ',' and '?' are stripped like the brackets.
C9_LoremTokens ==
    (result.op = "split" /\ arg = LoremText) =>
        result.words =
            << <<"L", "o", "r", "e", "m">>, <<"i", "p", "s", "u", "m">>,
               <<"d", "o", "l", "o", "r">>, <<"s", "i", "t">>,
               <<"a", "m", "e", "t">>,
               <<"s", "e", "c", "o", "n", "d">>, <<"l", "i", "n", "e">> >>

\* C9's case: split_words has returned for the scenario text
C9_Witness ==
    /\ result.op = "split"
    /\ arg = LoremText
    /\ Len(result.words) = 7

============================================================================
